---- MODULE Spec2Model ----
(***************************************************************************)
(* Intcode interpreter of aoc-2019 (src/src/computer.rs).                  *)
(*                                                                         *)
(* The interpreter owns the parsed program, the memory image (ram), the    *)
(* instruction pointer, the halted flag and the input / output vectors.    *)
(* The public operations reset, run_nv and run are modelled as actions;    *)
(* the private execute loop is modelled one iteration at a time, so that   *)
(* every instruction is its own step of the state machine.                 *)
(*                                                                         *)
(* The earlier revision of the interpreter (src/src/day02.rs) is modelled  *)
(* next to it, for their comparison, and day04's is_password_good          *)
(* (src/src/day04.rs) as a function exercised alone.                       *)
(*                                                                         *)
(* Cells are i32.  Addition and multiplication wrap modulo 2^32 (the       *)
(* release-profile semantics of `+` and `*`); casts and truncating         *)
(* division are modelled by what they compute.                             *)
(***************************************************************************)
EXTENDS Integers, Sequences, FiniteSets, TLC

VARIABLES
    program,    \* IntcodeComputer.program: the parsed program, the reset baseline
    ram,        \* IntcodeComputer.ram: the memory image (cell a is ram[a + 1])
    ip,         \* IntcodeComputer.ip
    halted,     \* IntcodeComputer.halted
    input,      \* IntcodeComputer.input (a Vec: pop() takes the LAST element)
    output,     \* IntcodeComputer.output
    pc,         \* "idle": no call in progress; "execute": inside execute()'s loop
    call,       \* the public operation called last: "new", "reset", "run", "run_nv"
    result,     \* what the last call returned (Pending while it is running)
    parsed,     \* history: the program as parsed by new()
    supplied,   \* history: the vector given to the last run(Some(..)), <<>> after reset
    inputsDone, \* history: input instructions completed since input was supplied
    steps,      \* history: instructions completed by the last run / run_nv
    last,       \* history: the last process_instruction() (where, what, how it ended)
    touched,    \* history: the addresses the last step read or wrote successfully
    faulted,    \* history: execute() has returned a fault since new() / reset()
    rerun,      \* history: the last run / run_nv was not the first since new() / reset()
    seed,       \* history: <<noun, verb>> of the last run_nv (NoSeed after anything else)
    consumed,   \* history: the input instruction the last step completed, if it was one
    earlier,    \* history: how the last run before the last reset() ended, kept through
                \* reset() and run_nv cycles ("none" once run() is called)
    arg,        \* the argument of a function exercised alone: the word handed to
                \* Opcode::try_from, the number handed to day04's is_password_good
    ret,        \* what that function returned for arg
    d2ram,      \* day02: the Vec<u32> handed to execute_program
    d2ip,       \* day02: execute_program's instruction pointer
    d2res,      \* day02: how execute_program ended ("Running" inside its loop)
    fetched     \* history: the opcode words execute_opcode has fetched

vars == <<program, ram, ip, halted, input, output, pc, call, result,
          parsed, supplied, inputsDone, steps, last, touched,
          faulted, rerun, seed, consumed, earlier, arg, ret,
          d2ram, d2ip, d2res, fetched>>

day02 == <<d2ram, d2ip, d2res, fetched>>

machine == <<ram, ip, halted, input, output>>

-----------------------------------------------------------------------------
(* Bounds of the model *)

MaxLen == 3          \* longest enumerated program
MaxInput == 2        \* longest input vector given to run()

-----------------------------------------------------------------------------
(* i32 arithmetic *)

I32Max == 2147483647
I32Min == (-2147483647) - 1

\* a + b on i32, wrapping
AddWrap(a, b) ==
    IF b >= 0
    THEN IF a > I32Max - b
         THEN ((a - I32Max) - 1) + ((b - I32Max) - 1)
         ELSE a + b
    ELSE IF a < I32Min - b
         THEN ((a + I32Max) + 1) + ((b + I32Max) + 1)
         ELSE a + b

RECURSIVE MulNat(_, _)
\* a * n on i32, wrapping, for n >= 0 (binary method over wrapping addition)
MulNat(a, n) ==
    IF n = 0 THEN 0
    ELSE LET h == MulNat(AddWrap(a, a), n \div 2)
         IN  IF n % 2 = 1 THEN AddWrap(h, a) ELSE h

\* 0 - a on i32, wrapping
NegWrap(a) == IF a = I32Min THEN I32Min ELSE 0 - a

\* a * b on i32, wrapping
MulWrap(a, b) ==
    IF b >= 0 THEN MulNat(a, b)
    ELSE IF b = I32Min
         THEN (IF a % 2 = 1 THEN I32Min ELSE 0)
         ELSE NegWrap(MulNat(a, 0 - b))

\* Rust's `/` and `%` on i32 truncate towards zero (d > 0 here)
TruncDiv(a, d) ==
    LET q == a \div d
    IN  IF a < 0 /\ a % d # 0 THEN q + 1 ELSE q

TruncRem(a, d) == a - d * TruncDiv(a, d)

\* a cast that keeps the magnitude of a negative remainder
AsU8Magnitude(r) == IF r < 0 THEN 0 - r ELSE r

\* `r as u8` for r in -99 .. 99
AsU8(r) == IF r < 0 THEN r + 256 ELSE r

\* usize values: [off |-> k, val |-> v] stands for k * 2^64 + v.
\* `w as usize` sign-extends an i32, so a negative w becomes 2^64 + w.
Usize(n) == [off |-> 0, val |-> n]

\* a conversion that maps a negative word onto its magnitude
AsUsizeMagnitude(w) == [off |-> 0, val |-> IF w < 0 THEN 0 - w ELSE w]

AsUsize(w) == [off |-> IF w < 0 THEN 1 ELSE 0, val |-> w]

\* u32 values: [hi |-> h, lo |-> l] stands for h * 65536 + l.
\* `n as i32` reinterprets the 32 bits.
U32AsI32(n) ==
    IF n.hi >= 32768 THEN (n.hi - 65536) * 65536 + n.lo
    ELSE n.hi * 65536 + n.lo

-----------------------------------------------------------------------------
(* Results *)

\* Result<T>: Ok(v), or an error of some kind raised at an address (a usize)
\* about a code (the instruction word, the mode digit or the base code)
Ok(v) == [ok |-> TRUE, val |-> v, kind |-> "Ok", at |-> [off |-> 0, val |-> 0], code |-> 0]

Err(kind, at, code) == [ok |-> FALSE, val |-> 0, kind |-> kind, at |-> at, code |-> code]

\* what a call hands back to its caller
Outcome(r) == [kind |-> r.kind, at |-> r.at, code |-> r.code]

Pending == [kind |-> "Pending", at |-> [off |-> 0, val |-> 0], code |-> 0]

-----------------------------------------------------------------------------
(* Ram *)

\* slice::get: Some iff the index is below the length
InRange(mem, address) == address.off = 0 /\ address.val >= 0 /\ address.val < Len(mem)

\* read that wraps an address past the end around to the start of memory
RamReadWraps(mem, address) ==
    IF InRange(mem, address)
    THEN Ok(mem[address.val + 1])
    ELSE IF address.off = 0 /\ address.val >= 0 /\ Len(mem) > 0
         THEN Ok(mem[(address.val % Len(mem)) + 1])
         ELSE Err("ReadOutOfBounds", address, 0)

RamRead(mem, address) ==
    IF InRange(mem, address)
    THEN Ok(mem[address.val + 1])
    ELSE Err("ReadOutOfBounds", address, 0)

\* write that drops a write out of range instead of failing
RamWriteIgnoresOutOfRange(mem, address, value) ==
    IF InRange(mem, address)
    THEN Ok([mem EXCEPT ![address.val + 1] = value])
    ELSE Ok(mem)

\* write that grows memory up to an address past its end
RamWriteGrows(mem, address, value) ==
    IF InRange(mem, address)
    THEN Ok([mem EXCEPT ![address.val + 1] = value])
    ELSE IF address.off = 0 /\ address.val >= 0
         THEN Ok([i \in 1 .. address.val + 1 |->
                    IF i <= Len(mem) THEN mem[i]
                    ELSE IF i = address.val + 1 THEN value ELSE 0])
         ELSE Err("WriteOutOfBounds", address, 0)

RamWrite(mem, address, value) ==
    IF InRange(mem, address)
    THEN Ok([mem EXCEPT ![address.val + 1] = value])
    ELSE Err("WriteOutOfBounds", address, 0)

-----------------------------------------------------------------------------
(* Opcode *)

Address == "Address"
Value == "Value"

\* one iteration of the loop over the three mode slots
ModeOf(params_part, value) ==
    LET d == TruncRem(params_part, 10)
    IN  IF d = 0 THEN Ok(Address)
        ELSE IF d = 1 THEN Ok(Value)
        ELSE Err("InvalidParameterMode", Usize(0), d)

\* try_from filling the modes most significant digit first
OpcodeTryFromReversed(value) ==
    LET p0 == TruncDiv(value, 100)
        p1 == TruncDiv(p0, 10)
        p2 == TruncDiv(p1, 10)
        p3 == TruncDiv(p2, 10)
        m1 == ModeOf(p0, value)
        m2 == ModeOf(p1, value)
        m3 == ModeOf(p2, value)
    IN  IF ~m1.ok THEN m1
        ELSE IF ~m2.ok THEN m2
        ELSE IF ~m3.ok THEN m3
        ELSE IF p3 > 0 THEN Err("TooManyParameterModes", Usize(0), value)
        ELSE Ok([op |-> AsU8(TruncRem(value, 100)),
                 modes |-> <<m3.val, m2.val, m1.val>>])

\* try_from without the check for digits left over after the three modes
OpcodeTryFromNoLeftoverCheck(value) ==
    LET p0 == TruncDiv(value, 100)
        p1 == TruncDiv(p0, 10)
        p2 == TruncDiv(p1, 10)
        m1 == ModeOf(p0, value)
        m2 == ModeOf(p1, value)
        m3 == ModeOf(p2, value)
    IN  IF ~m1.ok THEN m1
        ELSE IF ~m2.ok THEN m2
        ELSE IF ~m3.ok THEN m3
        ELSE Ok([op |-> AsU8(TruncRem(value, 100)),
                 modes |-> <<m1.val, m2.val, m3.val>>])

OpcodeTryFrom(value) ==
    LET p0 == TruncDiv(value, 100)
        p1 == TruncDiv(p0, 10)
        p2 == TruncDiv(p1, 10)
        p3 == TruncDiv(p2, 10)
        m1 == ModeOf(p0, value)
        m2 == ModeOf(p1, value)
        m3 == ModeOf(p2, value)
    IN  IF ~m1.ok THEN m1
        ELSE IF ~m2.ok THEN m2
        ELSE IF ~m3.ok THEN m3
        ELSE IF p3 > 0 THEN Err("TooManyParameterModes", Usize(0), value)
        ELSE Ok([op |-> AsU8(TruncRem(value, 100)),
                 modes |-> <<m1.val, m2.val, m3.val>>])

-----------------------------------------------------------------------------
(* Instruction *)

Add(a, b, dst) == [tag |-> "Add", a |-> a, b |-> b, adr |-> dst]
Multiply(a, b, dst) == [tag |-> "Multiply", a |-> a, b |-> b, adr |-> dst]
Input(dst) == [tag |-> "Input", a |-> 0, b |-> 0, adr |-> dst]
Output(src) == [tag |-> "Output", a |-> 0, b |-> 0, adr |-> src]
Halt == [tag |-> "Halt", a |-> 0, b |-> 0, adr |-> Usize(0)]

\* decode of add / multiply that takes the destination from the cell the third
\* parameter addresses, as it does for the sources
DecodeArithDerefsDest(mem, address, op) ==
    LET w1 == RamRead(mem, Usize(address + 1))
        w2 == RamRead(mem, Usize(address + 2))
        w3 == RamRead(mem, Usize(address + 3))
    IN  IF ~w1.ok THEN w1
        ELSE IF ~w2.ok THEN w2
        ELSE IF ~w3.ok THEN w3
        ELSE LET operand1 == RamRead(mem, AsUsize(w1.val))
                 operand2 == RamRead(mem, AsUsize(w2.val))
                 dest == RamRead(mem, AsUsize(w3.val))
             IN  IF ~operand1.ok THEN operand1
                 ELSE IF ~operand2.ok THEN operand2
                 ELSE IF ~dest.ok THEN dest
                 ELSE IF op = 1
                      THEN Ok(Add(operand1.val, operand2.val, AsUsize(dest.val)))
                      ELSE Ok(Multiply(operand1.val, operand2.val, AsUsize(dest.val)))

DecodeArith(mem, address, op) ==
    LET w1 == RamRead(mem, Usize(address + 1))
        w2 == RamRead(mem, Usize(address + 2))
        w3 == RamRead(mem, Usize(address + 3))
    IN  IF ~w1.ok THEN w1
        ELSE IF ~w2.ok THEN w2
        ELSE IF ~w3.ok THEN w3
        ELSE LET operand1 == RamRead(mem, AsUsize(w1.val))
                 operand2 == RamRead(mem, AsUsize(w2.val))
             IN  IF ~operand1.ok THEN operand1
                 ELSE IF ~operand2.ok THEN operand2
                 ELSE IF op = 1
                      THEN Ok(Add(operand1.val, operand2.val, AsUsize(w3.val)))
                      ELSE Ok(Multiply(operand1.val, operand2.val, AsUsize(w3.val)))

DecodeOne(mem, address, op) ==
    LET w1 == RamRead(mem, Usize(address + 1))
    IN  IF ~w1.ok THEN w1
        ELSE IF op = 3 THEN Ok(Input(AsUsize(w1.val)))
        ELSE Ok(Output(AsUsize(w1.val)))

\* decode whose last match arm halts instead of failing
DecodeUnknownHalts(mem, address) ==
    LET word == RamRead(mem, Usize(address))
    IN  IF ~word.ok THEN word
        ELSE LET opcode == OpcodeTryFrom(word.val)
             IN  IF ~opcode.ok THEN opcode
                 ELSE IF opcode.val.op \in {1, 2}
                      THEN DecodeArith(mem, address, opcode.val.op)
                 ELSE IF opcode.val.op \in {3, 4}
                      THEN DecodeOne(mem, address, opcode.val.op)
                 ELSE Ok(Halt)

Decode(mem, address) ==
    LET word == RamRead(mem, Usize(address))
    IN  IF ~word.ok THEN word
        ELSE LET opcode == OpcodeTryFrom(word.val)
             IN  IF ~opcode.ok THEN opcode
                 ELSE IF opcode.val.op \in {1, 2}
                      THEN DecodeArith(mem, address, opcode.val.op)
                 ELSE IF opcode.val.op \in {3, 4}
                      THEN DecodeOne(mem, address, opcode.val.op)
                 ELSE IF opcode.val.op = 99 THEN Ok(Halt)
                 ELSE Err("InvalidOpcode", Usize(address), opcode.val.op)

\* Size with a halt instruction one word wide (the pointer moves past it)
SizeHaltAdvances(instruction) ==
    IF instruction.tag \in {"Add", "Multiply"} THEN 4
    ELSE IF instruction.tag \in {"Input", "Output"} THEN 2
    ELSE 1

\* Size with every instruction but halt four words wide
SizeAllFour(instruction) ==
    IF instruction.tag = "Halt" THEN 0 ELSE 4

\* Size with input and output leaving the pointer where it is
SizeOutputStays(instruction) ==
    IF instruction.tag \in {"Add", "Multiply"} THEN 4 ELSE 0

Size(instruction) ==
    IF instruction.tag \in {"Add", "Multiply"} THEN 4
    ELSE IF instruction.tag \in {"Input", "Output"} THEN 2
    ELSE 0

\* pop that hands out 0 when the vector is empty
VecPopOrZero(v) ==
    IF Len(v) = 0 THEN Ok([elem |-> 0, rest |-> v])
    ELSE Ok([elem |-> v[Len(v)], rest |-> SubSeq(v, 1, Len(v) - 1)])

\* Vec::pop: the last element, and the vector without it
VecPop(v) ==
    IF Len(v) = 0 THEN Err("InputExhausted", Usize(0), 0)
    ELSE Ok([elem |-> v[Len(v)], rest |-> SubSeq(v, 1, Len(v) - 1)])

-----------------------------------------------------------------------------
(* IntcodeComputer *)

\* The interpreter's fields that instructions act on
Machine(r, i, h, in, out) == [ram |-> r, ip |-> i, halted |-> h, input |-> in, output |-> out]

\* match arms whose Output arm pushes the source address, not the cell it names
ApplyOutputPushesAddress(m, instruction) ==
    IF instruction.tag = "Add"
    THEN LET w == RamWrite(m.ram, instruction.adr, AddWrap(instruction.a, instruction.b))
         IN  IF w.ok THEN [res |-> Ok(0), m |-> [m EXCEPT !.ram = w.val]]
             ELSE [res |-> w, m |-> m]
    ELSE IF instruction.tag = "Multiply"
    THEN LET w == RamWrite(m.ram, instruction.adr, MulWrap(instruction.a, instruction.b))
         IN  IF w.ok THEN [res |-> Ok(0), m |-> [m EXCEPT !.ram = w.val]]
             ELSE [res |-> w, m |-> m]
    ELSE IF instruction.tag = "Halt"
    THEN [res |-> Ok(0), m |-> [m EXCEPT !.halted = TRUE]]
    ELSE IF instruction.tag = "Input"
    THEN LET v == VecPop(m.input)
         IN  IF ~v.ok THEN [res |-> v, m |-> m]
             ELSE LET w == RamWrite(m.ram, instruction.adr, v.val.elem)
                  IN  IF w.ok
                      THEN [res |-> Ok(0), m |-> [m EXCEPT !.ram = w.val, !.input = v.val.rest]]
                      ELSE [res |-> w, m |-> [m EXCEPT !.input = v.val.rest]]
    ELSE LET r == RamRead(m.ram, instruction.adr)
         IN  IF r.ok THEN [res |-> Ok(0),
                           m |-> [m EXCEPT !.output = Append(m.output, instruction.adr.val)]]
             ELSE [res |-> r, m |-> m]

\* The match arm of process_instruction for a decoded instruction: the result
\* and the machine it leaves (ip not yet advanced).  The argument of
\* ram.write in the Input arm is evaluated first, so the value is popped
\* before the write is attempted.
Apply(m, instruction) ==
    IF instruction.tag = "Add"
    THEN LET w == RamWrite(m.ram, instruction.adr, AddWrap(instruction.a, instruction.b))
         IN  IF w.ok THEN [res |-> Ok(0), m |-> [m EXCEPT !.ram = w.val]]
             ELSE [res |-> w, m |-> m]
    ELSE IF instruction.tag = "Multiply"
    THEN LET w == RamWrite(m.ram, instruction.adr, MulWrap(instruction.a, instruction.b))
         IN  IF w.ok THEN [res |-> Ok(0), m |-> [m EXCEPT !.ram = w.val]]
             ELSE [res |-> w, m |-> m]
    ELSE IF instruction.tag = "Halt"
    THEN [res |-> Ok(0), m |-> [m EXCEPT !.halted = TRUE]]
    ELSE IF instruction.tag = "Input"
    THEN LET v == VecPop(m.input)
         IN  IF ~v.ok THEN [res |-> v, m |-> m]
             ELSE LET w == RamWrite(m.ram, instruction.adr, v.val.elem)
                  IN  IF w.ok
                      THEN [res |-> Ok(0), m |-> [m EXCEPT !.ram = w.val, !.input = v.val.rest]]
                      ELSE [res |-> w, m |-> [m EXCEPT !.input = v.val.rest]]
    ELSE LET r == RamRead(m.ram, instruction.adr)
         IN  IF r.ok THEN [res |-> Ok(0), m |-> [m EXCEPT !.output = Append(m.output, r.val)]]
             ELSE [res |-> r, m |-> m]

\* process_instruction that clears the output log when the instruction fails
ProcessInstructionOnRollsBack(m) ==
    LET d == Decode(m.ram, m.ip)
    IN  IF ~d.ok THEN [res |-> d, m |-> [m EXCEPT !.output = <<>>], tag |-> "none"]
        ELSE LET e == Apply(m, d.val)
             IN  IF ~e.res.ok
                 THEN [res |-> e.res, m |-> [e.m EXCEPT !.output = <<>>], tag |-> d.val.tag]
                 ELSE [res |-> Ok(0),
                       m |-> [e.m EXCEPT !.ip = e.m.ip + Size(d.val)],
                       tag |-> d.val.tag]

\* process_instruction: decode, apply, advance ip by the instruction's size
ProcessInstructionOn(m) ==
    LET d == Decode(m.ram, m.ip)
    IN  IF ~d.ok THEN [res |-> d, m |-> m, tag |-> "none"]
        ELSE LET e == Apply(m, d.val)
             IN  IF ~e.res.ok THEN [res |-> e.res, m |-> e.m, tag |-> d.val.tag]
                 ELSE [res |-> Ok(0),
                       m |-> [e.m EXCEPT !.ip = e.m.ip + Size(d.val)],
                       tag |-> d.val.tag]

\* the addresses of a row of reads that are read before the first read that fails
ReadBeforeFailure(mem, addresses) ==
    { addresses[i] : i \in { j \in 1 .. Len(addresses) :
                               \A k \in 1 .. j : RamRead(mem, addresses[k]).ok } }

\* the addresses Instruction::decode reads successfully, in the order of its reads
DecodeReads(mem, address) ==
    LET word == RamRead(mem, Usize(address))
        opcode == OpcodeTryFrom(word.val)
        params == <<Usize(address + 1), Usize(address + 2), Usize(address + 3)>>
        w1 == RamRead(mem, Usize(address + 1))
        w2 == RamRead(mem, Usize(address + 2))
        w3 == RamRead(mem, Usize(address + 3))
    IN  IF ~word.ok THEN {}
        ELSE IF ~opcode.ok THEN { Usize(address) }
        ELSE IF opcode.val.op \in {1, 2}
             THEN { Usize(address) } \cup ReadBeforeFailure(mem, params)
                    \cup (IF w1.ok /\ w2.ok /\ w3.ok
                          THEN ReadBeforeFailure(mem, <<AsUsize(w1.val), AsUsize(w2.val)>>)
                          ELSE {})
        ELSE IF opcode.val.op \in {3, 4}
             THEN { Usize(address) } \cup ReadBeforeFailure(mem, <<Usize(address + 1)>>)
        ELSE { Usize(address) }

\* the address the match arm of process_instruction accesses successfully
ApplyAccess(m, instruction) ==
    IF instruction.tag \in {"Add", "Multiply"}
    THEN (IF RamWrite(m.ram, instruction.adr, 0).ok THEN { instruction.adr } ELSE {})
    ELSE IF instruction.tag = "Input"
    THEN (IF VecPop(m.input).ok /\ RamWrite(m.ram, instruction.adr, 0).ok
          THEN { instruction.adr } ELSE {})
    ELSE IF instruction.tag = "Output"
    THEN (IF RamRead(m.ram, instruction.adr).ok THEN { instruction.adr } ELSE {})
    ELSE {}

\* the addresses one process_instruction() accesses successfully
StepAccesses(m) ==
    LET d == Decode(m.ram, m.ip)
    IN  DecodeReads(m.ram, m.ip) \cup (IF d.ok THEN ApplyAccess(m, d.val) ELSE {})

RECURSIVE ExecuteOn(_)
\* execute() run to its end on machine m: the Result it returns and the
\* machine it leaves (the loop ends: a completed instruction other than halt
\* moves ip forward, and an instruction past the end of memory fails)
ExecuteOn(m) ==
    IF m.halted THEN [res |-> Ok(0), m |-> m]
    ELSE LET p == ProcessInstructionOn(m)
         IN  IF ~p.res.ok THEN [res |-> p.res, m |-> p.m]
             ELSE ExecuteOn(p.m)

RECURSIVE StepsOn(_, _)
\* the machine after n iterations of execute()'s loop on machine m
StepsOn(m, n) ==
    IF n = 0 THEN m ELSE StepsOn(ProcessInstructionOn(m).m, n - 1)

\* run_nv run to its end on machine m
RunNvOn(m, noun, verb) ==
    LET w1 == RamWrite(m.ram, Usize(1), U32AsI32(noun))
    IN  IF ~w1.ok THEN [res |-> w1, m |-> m]
        ELSE LET w2 == RamWrite(w1.val, Usize(2), U32AsI32(verb))
             IN  IF ~w2.ok THEN [res |-> w2, m |-> [m EXCEPT !.ram = w1.val]]
                 ELSE ExecuteOn([m EXCEPT !.ram = w2.val])

\* the machine reset() leaves for a program
ResetOn(prog) == Machine(prog, 0, FALSE, <<>>, <<>>)

-----------------------------------------------------------------------------
(* Inputs of the model *)

\* instruction words tried in cell 0
OpWords == {1, 2, 3, 4, 99, 0, 5, 101, 1001, 1101, 10001, 1002, 103, 104, 1199,
            201, 2001, 20002, 100001, 100099,
            -1, -99, -101, -100001}

\* cell values tried after cell 0: two addresses, the halt word (also an
\* address past the end), a negative word
Cells == {0, 1, 99, -1}

\* add and multiply words, with and without mode digits
ArithWords == {1, 2, 101, 1002, 1101, 10001}

\* parameter words of the add / multiply programs <<w, a, b, c, 99>>:
\* cell 0, the cell holding 99, the first address past the end, a negative word
Operands == {0, 4, 5, -1}

ArithPrograms == { <<w, a, b, c, 99>> : w \in ArithWords, a \in Operands, b \in Operands, c \in Operands }

\* the programs of the tests and of the documentation
SamplePrograms ==
    { <<1, 0, 0, 0, 99>>,
      <<1, 0, 0, 0>>,
      <<2, 4, 4, 5, 99, 0>>,
      <<1, 1, 1, 4, 99, 5, 6, 0, 99>>,
      <<3, 0, 4, 0, 99>>,
      <<1, 100>>,
      <<1, 9, 10, 3, 2, 3, 11, 0, 99, 30, 40, 50>>,
      <<1002, 4, 3, 4, 33>>,
      <<1101, 100, -1, 4, 0>>,
      <<3, 0, 3, 1, 4, 0, 4, 1, 99>>,
      <<1, 5, 5, 0, 99, 2147483647>>,
      <<2, 5, 5, 0, 99, 65536>> }

RECURSIVE SeqsUpTo(_, _)
\* the sequences over S of length at most n
SeqsUpTo(S, n) ==
    IF n = 0 THEN { <<>> }
    ELSE LET shorter == SeqsUpTo(S, n - 1)
         IN  shorter \cup { Append(t, c) : t \in { u \in shorter : Len(u) = n - 1 }, c \in S }

Programs ==
    { <<w>> \o t : w \in OpWords, t \in SeqsUpTo(Cells, MaxLen - 1) }
        \cup ArithPrograms \cup SamplePrograms

\* values given to run() as input
InputStream == <<1, 99, 0, 4>>

InputVectors == { SubSeq(InputStream, 1, n) : n \in 0 .. MaxInput }

\* more values given to run() alone, to programs that hold an input instruction
EchoValues == {123, -1, I32Min}

ReadsInput(prog) == \E i \in 1 .. Len(prog) : prog[i] \in {3, 103}

InputsFor(prog) ==
    InputVectors \cup (IF ReadsInput(prog) THEN { <<x>> : x \in EchoValues } ELSE {})

\* u32 arguments of run_nv: 2 and 4294967295
Nouns == { [hi |-> 0, lo |-> 2], [hi |-> 65535, lo |-> 65535] }

NoStep == [at |-> 0, tag |-> "none", ok |-> TRUE]

\* the last step completed no input instruction
NoInput == [adr |-> Usize(0), val |-> 0, none |-> TRUE]

\* no run_nv is in progress or was called last
NoSeed == << >>

\* a run / run_nv has been called since new() / reset()
AlreadyRun == call \notin {"new", "reset"}

\* how the last run / run_nv ended, as reset() finds it: not at all when
\* nothing was run since new() or the reset() before
HowEnded ==
    IF ~AlreadyRun THEN earlier
    ELSE IF result.kind = "Ok" THEN "halt" ELSE "fault"

\* Opcode::try_from not exercised alone, or not yet
\* execute_program was not called
NotCalled == [kind |-> "NotCalled"]

NotYet == [ok |-> FALSE, val |-> 0, kind |-> "NotYet", at |-> Usize(0), code |-> 0]

-----------------------------------------------------------------------------
(* State machine of the interpreter *)

\* IntcodeComputer::new on a program text that parses
Init ==
    /\ program \in Programs
    /\ ram = program
    /\ ip = 0
    /\ halted = FALSE
    /\ input = <<>>
    /\ output = <<>>
    /\ pc = "idle"
    /\ call = "new"
    /\ result = Outcome(Ok(0))
    /\ parsed = program
    /\ supplied = <<>>
    /\ inputsDone = 0
    /\ steps = 0
    /\ last = NoStep
    /\ touched = {}
    /\ faulted = FALSE
    /\ rerun = FALSE
    /\ seed = NoSeed
    /\ consumed = NoInput
    /\ earlier = "none"
    /\ d2ram = <<>>
    /\ d2ip = 0
    /\ d2res = NotCalled
    /\ fetched = {}
    /\ arg = 0
    /\ ret = NotYet

\* reset() that forgets to restore the memory image
ResetKeepsRam ==
    /\ pc = "idle"
    /\ ip' = 0
    /\ halted' = FALSE
    /\ input' = <<>>
    /\ output' = <<>>
    /\ call' = "reset"
    /\ result' = Outcome(Ok(0))
    /\ supplied' = <<>>
    /\ inputsDone' = 0
    /\ touched' = {}
    /\ faulted' = FALSE
    /\ rerun' = FALSE
    /\ seed' = NoSeed
    /\ consumed' = NoInput
    /\ earlier' = HowEnded
    /\ UNCHANGED <<program, ram, pc, parsed, steps, last, arg, ret, day02>>

\* reset() that forgets to rewind the instruction pointer
ResetKeepsIp ==
    /\ pc = "idle"
    /\ ram' = program
    /\ halted' = FALSE
    /\ input' = <<>>
    /\ output' = <<>>
    /\ call' = "reset"
    /\ result' = Outcome(Ok(0))
    /\ supplied' = <<>>
    /\ inputsDone' = 0
    /\ touched' = {}
    /\ faulted' = FALSE
    /\ rerun' = FALSE
    /\ seed' = NoSeed
    /\ consumed' = NoInput
    /\ earlier' = HowEnded
    /\ UNCHANGED <<program, ip, pc, parsed, steps, last, arg, ret, day02>>

Reset ==
    /\ pc = "idle"
    /\ ram' = program
    /\ ip' = 0
    /\ halted' = FALSE
    /\ input' = <<>>
    /\ output' = <<>>
    /\ call' = "reset"
    /\ result' = Outcome(Ok(0))
    /\ supplied' = <<>>
    /\ inputsDone' = 0
    /\ touched' = {}
    /\ faulted' = FALSE
    /\ rerun' = FALSE
    /\ seed' = NoSeed
    /\ consumed' = NoInput
    /\ earlier' = HowEnded
    /\ UNCHANGED <<program, pc, parsed, steps, last, arg, ret, day02>>

\* run_nv up to the call of execute(): the two writes, each with `?`
RunNv(noun, verb) ==
    /\ pc = "idle"
    /\ LET w1 == RamWrite(ram, Usize(1), U32AsI32(noun))
       IN  IF ~w1.ok
           THEN /\ ram' = ram
                /\ pc' = "idle"
                /\ result' = Outcome(w1)
                /\ touched' = {}
           ELSE LET w2 == RamWrite(w1.val, Usize(2), U32AsI32(verb))
                IN  IF ~w2.ok
                    THEN /\ ram' = w1.val
                         /\ pc' = "idle"
                         /\ result' = Outcome(w2)
                         /\ touched' = { Usize(1) }
                    ELSE /\ ram' = w2.val
                         /\ pc' = "execute"
                         /\ result' = Pending
                         /\ touched' = { Usize(1), Usize(2) }
    /\ call' = "run_nv"
    /\ steps' = 0
    /\ last' = NoStep
    /\ rerun' = AlreadyRun
    /\ seed' = <<noun, verb>>
    /\ consumed' = NoInput
    /\ UNCHANGED <<program, ip, halted, input, output, parsed, supplied, inputsDone,
                   faulted, earlier, arg, ret, day02>>

\* run(Some(in)) up to the call of execute()
RunSome(in) ==
    /\ pc = "idle"
    /\ input' = in
    /\ supplied' = in
    /\ inputsDone' = 0
    /\ pc' = "execute"
    /\ call' = "run"
    /\ result' = Pending
    /\ steps' = 0
    /\ last' = NoStep
    /\ touched' = {}
    /\ rerun' = AlreadyRun
    /\ seed' = NoSeed
    /\ consumed' = NoInput
    /\ earlier' = "none"
    /\ UNCHANGED <<program, ram, ip, halted, output, parsed, faulted, arg, ret, day02>>

\* run(Some(in)) for one of the vectors tried on the program
RunSomeInput == \E in \in InputsFor(program) : RunSome(in)

\* run(None) up to the call of execute()
RunNone ==
    /\ pc = "idle"
    /\ pc' = "execute"
    /\ call' = "run"
    /\ result' = Pending
    /\ steps' = 0
    /\ last' = NoStep
    /\ touched' = {}
    /\ rerun' = AlreadyRun
    /\ seed' = NoSeed
    /\ consumed' = NoInput
    /\ earlier' = "none"
    /\ UNCHANGED <<program, ram, ip, halted, input, output, parsed, supplied, inputsDone,
                   faulted, arg, ret, day02>>

\* a loop that tests nothing before its body
LoopConditionAlways == TRUE

\* the condition of execute()'s while loop
LoopCondition == ~halted

\* execute(): the loop condition is false, the call returns Ok(())
ExecuteReturn ==
    /\ pc = "execute"
    /\ halted
    /\ pc' = "idle"
    /\ result' = Outcome(Ok(0))
    /\ touched' = {}
    /\ consumed' = NoInput
    /\ UNCHANGED <<program, ram, ip, halted, input, output, call, parsed,
                   supplied, inputsDone, steps, last, faulted, rerun, seed, earlier, arg, ret, day02>>

\* execute(): one iteration of the loop, process_instruction()?
ProcessInstruction ==
    /\ pc = "execute"
    /\ LoopCondition
    /\ \E p \in { ProcessInstructionOn(Machine(ram, ip, halted, input, output)) } :
           /\ ram' = p.m.ram
           /\ ip' = p.m.ip
           /\ halted' = p.m.halted
           /\ input' = p.m.input
           /\ output' = p.m.output
           /\ inputsDone' = IF p.tag = "Input" /\ p.res.ok THEN inputsDone + 1 ELSE inputsDone
           /\ last' = [at |-> ip, tag |-> p.tag, ok |-> p.res.ok]
           /\ consumed' = IF p.tag = "Input" /\ p.res.ok
                          THEN [adr |-> AsUsize(ram[ip + 2]), val |-> input[Len(input)],
                                none |-> FALSE]
                          ELSE NoInput
           /\ IF p.res.ok
              THEN /\ pc' = "execute"
                   /\ result' = result
                   /\ steps' = steps + 1
                   /\ faulted' = faulted
              ELSE /\ pc' = "idle"
                   /\ result' = Outcome(p.res)
                   /\ steps' = steps
                   /\ faulted' = TRUE
    /\ touched' = StepAccesses(Machine(ram, ip, halted, input, output))
    /\ UNCHANGED <<program, call, parsed, supplied, rerun, seed, earlier, arg, ret, day02>>

Next ==
    \/ Reset
    \/ \E noun \in Nouns, verb \in Nouns : RunNv(noun, verb)
    \/ RunSomeInput
    \/ RunNone
    \/ ExecuteReturn
    \/ ProcessInstruction

Spec == Init /\ [][Next]_vars

-----------------------------------------------------------------------------
(* Opcode::try_from exercised alone, on every word of a range *)

MaxWord == 11300     \* the words -MaxWord .. MaxWord are tried

\* negative words whose three mode digits are all 0: -100000 .. -100099
AliasWords == { 0 - (100000 + k) : k \in 0 .. 99 }

TryFromWords ==
    (0 - MaxWord) .. MaxWord \cup OpWords \cup AliasWords \cup {I32Max, I32Min}

TryFromInit ==
    /\ arg \in TryFromWords
    /\ ret = NotYet
    /\ program = <<99>>
    /\ ram = program
    /\ ip = 0
    /\ halted = FALSE
    /\ input = <<>>
    /\ output = <<>>
    /\ pc = "idle"
    /\ call = "new"
    /\ result = Outcome(Ok(0))
    /\ parsed = program
    /\ supplied = <<>>
    /\ inputsDone = 0
    /\ steps = 0
    /\ last = NoStep
    /\ touched = {}
    /\ faulted = FALSE
    /\ rerun = FALSE
    /\ seed = NoSeed
    /\ consumed = NoInput
    /\ earlier = "none"
    /\ d2ram = <<>>
    /\ d2ip = 0
    /\ d2res = NotCalled
    /\ fetched = {}

TryFrom ==
    /\ ret.kind = "NotYet"
    /\ ret' = OpcodeTryFrom(arg)
    /\ UNCHANGED <<program, ram, ip, halted, input, output, pc, call, result,
                   parsed, supplied, inputsDone, steps, last, touched,
                   faulted, rerun, seed, consumed, earlier, arg, day02>>

\* Instruction::decode exercised alone: the word, converted, is put in a
\* memory of one cell and decoded at address 0
DecodeWord ==
    /\ ret.kind # "NotYet"
    /\ last = NoStep
    /\ ram' = <<arg>>
    /\ \E d \in { Decode(<<arg>>, 0) } :
          /\ result' = Outcome(d)
          /\ last' = [at |-> 0, tag |-> IF d.ok THEN d.val.tag ELSE "none", ok |-> d.ok]
    /\ UNCHANGED <<program, ip, halted, input, output, pc, call,
                   parsed, supplied, inputsDone, steps, touched,
                   faulted, rerun, seed, consumed, earlier, arg, ret, day02>>

TryFromSpec == TryFromInit /\ [][TryFrom \/ DecodeWord]_vars

-----------------------------------------------------------------------------
(* The earlier revision (src/src/day02.rs): execute_program on a Vec<u32>,  *)
(* run next to IntcodeComputer's execute on the same program                *)

MaxDay02Len == 5     \* longest enumerated program of the earlier revision

\* cell values of the enumerated programs: the three opcodes, the codes the
\* later revision added, and addresses
Day02Cells == {0, 1, 2, 3, 4, 99}

\* the programs of day02's tests, a program without halt, a program that
\* writes an output instruction over its own code, two programs whose sums
\* leave the range of i32
Day02Samples ==
    { <<1, 0, 0, 0, 99>>,
      <<2, 4, 4, 5, 99, 0>>,
      <<1, 1, 1, 4, 99, 5, 6, 0, 99>>,
      <<1, 0, 0, 0>>,
      <<1, 7, 7, 4, 0, 0, 99, 2>>,
      <<1, 5, 5, 0, 99, 2147483647>>,
      <<2, 5, 5, 0, 99, 65536>> }

Day02Programs == (SeqsUpTo(Day02Cells, MaxDay02Len) \ { <<>> }) \cup Day02Samples

\* a + b (a * b) of two cells that are at most I32Max is at most I32Max
FitsSum(a, b) == a <= I32Max - b

FitsProduct(a, b) == a = 0 \/ b <= I32Max \div a

\* what one call of execute_opcode does
Day02Step(kind, mem, i) == [kind |-> kind, ram |-> mem, ip |-> i]

\* execute_opcode in which opcode 2 adds as opcode 1 does
ExecuteOpcodeOnAlwaysAdds(mem, i) ==
    IF i >= Len(mem) THEN Day02Step("Panic", mem, i)
    ELSE LET opcode == mem[i + 1]
             j == i + 1
         IN  IF opcode \in {1, 2}
             THEN IF j + 2 >= Len(mem) THEN Day02Step("OperandOutOfBounds", mem, j)
                  ELSE LET operand1 == mem[j + 1]
                           operand2 == mem[j + 2]
                           dest == mem[j + 3]
                       IN  IF operand1 >= Len(mem) \/ operand2 >= Len(mem) \/ dest >= Len(mem)
                           THEN Day02Step("AddressOutOfBounds", mem, j + 3)
                           ELSE IF ~FitsSum(mem[operand1 + 1], mem[operand2 + 1])
                                THEN Day02Step("Beyond", mem, j + 3)
                                ELSE Day02Step("Continue",
                                         [mem EXCEPT ![dest + 1] = mem[operand1 + 1] + mem[operand2 + 1]],
                                         j + 3)
             ELSE IF opcode = 99 THEN Day02Step("Halt", mem, j)
             ELSE Day02Step("InvalidOpcode", mem, j)

\* execute_opcode(ram, ip) on the vector mem with the pointer at i.
\*   "Panic": `ram[*ip]` indexes past the end (the call does not return);
\*   "OperandOutOfBounds", "AddressOutOfBounds", "InvalidOpcode": the Err returned;
\*   "Halt": Ok(true); "Continue": Ok(false);
\*   "Beyond": the sum or product exceeds I32Max.  u32 holds it up to 2^32 - 1
\*   (past that the operation panics or wraps, by build profile); the cells of
\*   this model are followed up to I32Max only, and the run is followed no further.
\* The pointer moves past the opcode before the match and past the three
\* parameters before they are dereferenced.
ExecuteOpcodeOn(mem, i) ==
    IF i >= Len(mem) THEN Day02Step("Panic", mem, i)
    ELSE LET opcode == mem[i + 1]
             j == i + 1
         IN  IF opcode \in {1, 2}
             THEN IF j + 2 >= Len(mem) THEN Day02Step("OperandOutOfBounds", mem, j)
                  ELSE LET operand1 == mem[j + 1]
                           operand2 == mem[j + 2]
                           dest == mem[j + 3]
                       IN  IF operand1 >= Len(mem) \/ operand2 >= Len(mem) \/ dest >= Len(mem)
                           THEN Day02Step("AddressOutOfBounds", mem, j + 3)
                           ELSE IF opcode = 1
                           THEN IF ~FitsSum(mem[operand1 + 1], mem[operand2 + 1])
                                THEN Day02Step("Beyond", mem, j + 3)
                                ELSE Day02Step("Continue",
                                         [mem EXCEPT ![dest + 1] = mem[operand1 + 1] + mem[operand2 + 1]],
                                         j + 3)
                           ELSE IF ~FitsProduct(mem[operand1 + 1], mem[operand2 + 1])
                                THEN Day02Step("Beyond", mem, j + 3)
                                ELSE Day02Step("Continue",
                                         [mem EXCEPT ![dest + 1] = mem[operand1 + 1] * mem[operand2 + 1]],
                                         j + 3)
             ELSE IF opcode = 99 THEN Day02Step("Halt", mem, j)
             ELSE Day02Step("InvalidOpcode", mem, j)

\* execute_program has been called on the program; the interpreter of
\* computer.rs has been constructed from the same text
Day02Init ==
    /\ program \in Day02Programs
    /\ ram = program
    /\ ip = 0
    /\ halted = FALSE
    /\ input = <<>>
    /\ output = <<>>
    /\ pc = "idle"
    /\ call = "new"
    /\ result = Outcome(Ok(0))
    /\ parsed = program
    /\ supplied = <<>>
    /\ inputsDone = 0
    /\ steps = 0
    /\ last = NoStep
    /\ touched = {}
    /\ faulted = FALSE
    /\ rerun = FALSE
    /\ seed = NoSeed
    /\ consumed = NoInput
    /\ earlier = "none"
    /\ arg = 0
    /\ ret = NotYet
    /\ d2ram = program
    /\ d2ip = 0
    /\ d2res = [kind |-> "Running"]
    /\ fetched = {}

\* one iteration of execute_program's loop
ExecuteOpcode ==
    /\ d2res.kind = "Running"
    /\ \E s \in { ExecuteOpcodeOn(d2ram, d2ip) } :
          /\ d2ram' = s.ram
          /\ d2ip' = s.ip
          /\ d2res' = [kind |-> IF s.kind = "Continue" THEN "Running"
                                ELSE IF s.kind = "Halt" THEN "Ok"
                                ELSE s.kind]
    /\ fetched' = IF d2ip < Len(d2ram) THEN fetched \cup { d2ram[d2ip + 1] } ELSE fetched
    /\ UNCHANGED <<program, ram, ip, halted, input, output, pc, call, result,
                   parsed, supplied, inputsDone, steps, last, touched,
                   faulted, rerun, seed, consumed, earlier, arg, ret>>

\* IntcodeComputer::execute, run to its end, once execute_program is over
Execute ==
    /\ d2res.kind # "Running"
    /\ call = "new"
    /\ \E e \in { ExecuteOn(Machine(ram, ip, halted, input, output)) } :
          /\ ram' = e.m.ram
          /\ ip' = e.m.ip
          /\ halted' = e.m.halted
          /\ input' = e.m.input
          /\ output' = e.m.output
          /\ result' = Outcome(e.res)
    /\ call' = "execute"
    /\ UNCHANGED <<program, pc, parsed, supplied, inputsDone, steps, last, touched,
                   faulted, rerun, seed, consumed, earlier, arg, ret, day02>>

Day02Spec == Day02Init /\ [][ExecuteOpcode \/ Execute]_vars

-----------------------------------------------------------------------------
(* day04.rs: is_password_good exercised alone, on 6-digit numbers *)

MaxDigit == 3        \* the digits 0 .. MaxDigit, and 9, make up the numbers tried

PassDigits == 0 .. MaxDigit \cup {9}

\* the numbers of day04's tests
PasswordSamples == {111111, 123444, 111123, 135679, 223450, 123789, 676399}

\* 6-digit numbers: the first digit is not 0
PassNumbers ==
    { ((((a * 10 + b) * 10 + c) * 10 + d) * 10 + e) * 10 + f :
        a \in PassDigits \ {0}, b \in PassDigits, c \in PassDigits,
        d \in PassDigits, e \in PassDigits, f \in PassDigits }
        \cup PasswordSamples

RECURSIVE PushDigits(_)
\* the while loop of to_digits: the digits pushed, least significant first
PushDigits(num) ==
    IF num > 0 THEN <<num % 10>> \o PushDigits(num \div 10) ELSE <<>>

\* Vec::reverse
VecReverse(v) == [i \in 1 .. Len(v) |-> v[Len(v) + 1 - i]]

ToDigits(num) == VecReverse(PushDigits(num))

\* Option<u8>
None == [some |-> FALSE, val |-> 0]

Some(digit) == [some |-> TRUE, val |-> digit]

\* one call of the closure folded over the digits: the accumulator (group,
\* prev) and the three captured flags
FoldStep(acc, digit) ==
    IF ~acc.prev.some
    THEN [acc EXCEPT !.prev = Some(digit)]
    ELSE IF digit = acc.prev.val
    THEN [acc EXCEPT !.increases = acc.increases /\ digit >= acc.prev.val,
                     !.has_adjacent = TRUE,
                     !.group = acc.group + 1,
                     !.prev = Some(digit)]
    ELSE [acc EXCEPT !.increases = acc.increases /\ digit >= acc.prev.val,
                     !.has_double = acc.has_double \/ acc.group = 2,
                     !.group = 1,
                     !.prev = Some(digit)]

RECURSIVE Fold(_, _, _)
\* Iterator::fold over digits[k ..]
Fold(digits, k, acc) ==
    IF k > Len(digits) THEN acc ELSE Fold(digits, k + 1, FoldStep(acc, digits[k]))

FoldStart ==
    [group |-> 1, prev |-> None, increases |-> TRUE, has_double |-> FALSE, has_adjacent |-> FALSE]

\* is_password_good without the look at the size of the last group
IsPasswordGoodNoLastGroup(pass) ==
    LET f == Fold(ToDigits(pass), 1, FoldStart)
    IN  <<f.increases /\ f.has_adjacent, f.increases /\ f.has_double>>

IsPasswordGood(pass) ==
    LET f == Fold(ToDigits(pass), 1, FoldStart)
    IN  <<f.increases /\ f.has_adjacent,
          f.increases /\ (f.has_double \/ f.group = 2)>>

PasswordInit ==
    /\ arg \in PassNumbers
    /\ ret = NotYet
    /\ program = <<99>>
    /\ ram = program
    /\ ip = 0
    /\ halted = FALSE
    /\ input = <<>>
    /\ output = <<>>
    /\ pc = "idle"
    /\ call = "new"
    /\ result = Outcome(Ok(0))
    /\ parsed = program
    /\ supplied = <<>>
    /\ inputsDone = 0
    /\ steps = 0
    /\ last = NoStep
    /\ touched = {}
    /\ faulted = FALSE
    /\ rerun = FALSE
    /\ seed = NoSeed
    /\ consumed = NoInput
    /\ earlier = "none"
    /\ d2ram = <<>>
    /\ d2ip = 0
    /\ d2res = NotCalled
    /\ fetched = {}

CheckPassword ==
    /\ ret.kind = "NotYet"
    /\ ret' = Ok(IsPasswordGood(arg))
    /\ UNCHANGED <<program, ram, ip, halted, input, output, pc, call, result,
                   parsed, supplied, inputsDone, steps, last, touched,
                   faulted, rerun, seed, consumed, earlier, arg, day02>>

PasswordSpec == PasswordInit /\ [][CheckPassword]_vars

-----------------------------------------------------------------------------
(* Vocabulary of the properties: the documented instruction format, read    *)
(* off the decimal digits of the word at the instruction pointer            *)

InMemory(a) == a >= 0 /\ a < Len(ram)

\* the cell at address a (a in memory)
Cell(a) == ram[a + 1]

\* the instruction word at the instruction pointer
Word == Cell(ip)

\* the two lowest decimal digits of a non-negative word
BaseCode(w) == w % 100

\* the i-th mode digit of a non-negative word: hundreds, thousands, ten-thousands
ModeDigit(w, i) == (w \div (10 ^ (i + 1))) % 10

\* a non-negative word whose three mode digits are 0 or 1, with nothing above them
WellFormed(w) ==
    /\ w >= 0
    /\ w < 100000
    /\ \A i \in 1 .. 3 : ModeDigit(w, i) \in {0, 1}

\* the i-th parameter word of the instruction at the instruction pointer
Param(i) == Cell(ip + i)

\* the instruction at the instruction pointer can be executed: recognised base
\* code, parameter words present and addressing cells of memory, input pending
ValidInstruction ==
    /\ InMemory(ip)
    /\ WellFormed(Word)
    /\ \/ /\ BaseCode(Word) \in {1, 2}
          /\ InMemory(ip + 3)
          /\ \A i \in 1 .. 3 : InMemory(Param(i))
       \/ /\ BaseCode(Word) = 3
          /\ InMemory(ip + 1)
          /\ InMemory(Param(1))
          /\ input # <<>>
       \/ /\ BaseCode(Word) = 4
          /\ InMemory(ip + 1)
          /\ InMemory(Param(1))
       \/ BaseCode(Word) = 99

IsFault(r) == r.kind \notin {"Ok", "Pending"}

\* the fault kinds of the documentation
IsInvalidOpcode(r) == r.kind \in {"InvalidParameterMode", "TooManyParameterModes", "InvalidOpcode"}

IsOutOfBounds(r) == r.kind \in {"ReadOutOfBounds", "WriteOutOfBounds"}

IsInputExhausted(r) == r.kind = "InputExhausted"

\* the decimal digits of a negative word are those of its magnitude (for the
\* least i32, whose magnitude is no i32, all digits but the lowest are right)
Magnitude(w) == IF w >= 0 THEN w ELSE IF w = I32Min THEN I32Max ELSE 0 - w

\* some mode digit is neither 0 nor 1, or a digit above the three mode digits is not 0
MalformedModes(w) ==
    \/ \E i \in 1 .. 3 : ModeDigit(Magnitude(w), i) \notin {0, 1}
    \/ Magnitude(w) >= 100000

\* the operand the documentation gives the i-th parameter: the parameter word
\* itself in value mode (digit 1), the cell it addresses in address mode (digit 0)
Resolvable(i) == ModeDigit(Word, i) = 1 \/ InMemory(Param(i))

Operand(i) == IF ModeDigit(Word, i) = 1 THEN Param(i) ELSE Cell(Param(i))

\* a step of the execute loop that processes an instruction
Processing == pc = "execute" /\ ~halted

-----------------------------------------------------------------------------
-----------------------------------------------------------------------------
\* C2: whatever was run before, a reset() leaves memory equal to the program
\* as it was parsed, cell for cell, the instruction pointer at 0, halted
\* false, input and output empty; and a reset() right after a reset()
\* changes nothing.
C2_ResetRestores ==
    [][ call' = "reset"
          => /\ ram' = parsed
             /\ program' = parsed
             /\ ip' = 0
             /\ ~halted'
             /\ input' = <<>>
             /\ output' = <<>>
             /\ pc' = "idle"
             /\ (call = "reset" => UNCHANGED vars) ]_vars

\* a reset() after a run that wrote memory, produced output and halted
C2_Witness ==
    /\ call = "reset"
    /\ steps >= 3
    /\ last.tag = "Halt"
    /\ last.at > 0
    /\ ram = parsed
    /\ ip = 0
    /\ ~halted
    /\ output = <<>>

-----------------------------------------------------------------------------
\* C3: input values are consumed in the order given: the k-th input
\* instruction completed since the vector [v1, ..., vn] was supplied (k <= n)
\* stores vk at its destination.
C3_InputInOrder ==
    [][ (Processing /\ last'.tag = "Input" /\ last'.ok /\ inputsDone < Len(supplied))
          => ram'[Param(1) + 1] = supplied[inputsDone + 1] ]_vars

-----------------------------------------------------------------------------
\* C4: add, multiply and output take each source operand by its mode digit:
\* the parameter word itself for digit 1, the cell it addresses for digit 0.
\* So a well-formed instruction whose operands can be resolved that way and
\* whose destination is in memory completes, with the documented effect.
C4_OperandsByMode ==
    [][ /\ ( /\ Processing /\ InMemory(ip) /\ WellFormed(Word)
             /\ BaseCode(Word) \in {1, 2}
             /\ InMemory(ip + 3)
             /\ Resolvable(1) /\ Resolvable(2)
             /\ InMemory(Param(3)) )
          => /\ last'.ok
             /\ ram' = [ram EXCEPT ![Param(3) + 1] =
                          IF BaseCode(Word) = 1
                          THEN AddWrap(Operand(1), Operand(2))
                          ELSE MulWrap(Operand(1), Operand(2))]
        /\ ( /\ Processing /\ InMemory(ip) /\ WellFormed(Word)
             /\ BaseCode(Word) = 4
             /\ InMemory(ip + 1)
             /\ Resolvable(1) )
          => /\ last'.ok
             /\ output' = Append(output, Operand(1))
      ]_vars

-----------------------------------------------------------------------------
\* C5 as stated: every word w with 0 <= w <= 11199 decodes, to base code
\* w mod 100 and, for each of the three parameters, to value mode where its
\* mode digit is 1 and to address mode where it is 0.
C5_DecodesRange ==
    (ret.kind # "NotYet" /\ arg >= 0 /\ arg <= 11199)
      => /\ ret.ok
         /\ ret.val.op = BaseCode(arg)
         /\ \A i \in 1 .. 3 :
              /\ ModeDigit(arg, i) = 1 => ret.val.modes[i] = Value
              /\ ModeDigit(arg, i) = 0 => ret.val.modes[i] = Address

\* C5 amended: every non-negative word whose three mode digits are each 0 or
\* 1 and which has no nonzero digit above them decodes, to base code w mod 100
\* and, for each of the three parameters, to value mode where its mode digit
\* is 1 and to address mode where it is 0.
C5_DecodesWellFormed ==
    (ret.kind # "NotYet" /\ WellFormed(arg))
      => /\ ret.ok
         /\ ret.val.op = BaseCode(arg)
         /\ \A i \in 1 .. 3 :
              ret.val.modes[i] = (IF ModeDigit(arg, i) = 1 THEN Value ELSE Address)

\* the word 1002 has been decoded: base code 2, modes address, value, address
C5_Witness ==
    /\ arg = 1002
    /\ ret.ok
    /\ ret.val.op = 2
    /\ ret.val.modes = <<Address, Value, Address>>

-----------------------------------------------------------------------------
\* C6: an instruction word with a mode digit other than 0 and 1, or with a
\* nonzero digit above the three mode digits, faults with an invalid-opcode
\* fault, and memory, pointer, halted, input and output are as before.
C6_MalformedModesFault ==
    [][ (Processing /\ InMemory(ip) /\ MalformedModes(Word))
          => /\ pc' = "idle"
             /\ IsInvalidOpcode(result')
             /\ UNCHANGED machine ]_vars

\* a run has faulted on a malformed word after completing an instruction
C6_Witness ==
    /\ pc = "idle"
    /\ call = "run"
    /\ steps >= 1
    /\ ~last.ok
    /\ last.at = ip
    /\ InMemory(ip)
    /\ MalformedModes(Word)
    /\ IsInvalidOpcode(result)

-----------------------------------------------------------------------------
\* C7: an instruction word whose base code (its two lowest digits) is none
\* of 1, 2, 3, 4, 99 faults with an invalid-opcode fault, and memory, pointer,
\* halted, input and output are as before.
C7_UnknownBaseCodeFaults ==
    [][ (Processing /\ InMemory(ip) /\ BaseCode(Magnitude(Word)) \notin {1, 2, 3, 4, 99})
          => /\ pc' = "idle"
             /\ IsInvalidOpcode(result')
             /\ UNCHANGED machine ]_vars

\* a run has faulted on a well-formed word of unknown base code, after
\* completing an instruction
C7_Witness ==
    /\ pc = "idle"
    /\ steps >= 1
    /\ ~last.ok
    /\ last.at = ip
    /\ InMemory(ip)
    /\ WellFormed(Word)
    /\ BaseCode(Word) \notin {1, 2, 3, 4, 99}
    /\ result.kind = "InvalidOpcode"

-----------------------------------------------------------------------------
\* C8: an add or multiply instruction some of whose three parameter words
\* lie past the end of memory, or one of whose source addresses or whose
\* destination address is at or past the length of memory, faults with an
\* out-of-bounds fault and leaves every cell of memory as it was.
C8_ArithOutOfBounds ==
    [][ ( /\ Processing /\ InMemory(ip) /\ WellFormed(Word)
          /\ BaseCode(Word) \in {1, 2}
          /\ \/ ~InMemory(ip + 3)
             \/ \E i \in 1 .. 2 : ModeDigit(Word, i) = 0 /\ Param(i) >= Len(ram)
             \/ Param(3) >= Len(ram) )
          => /\ pc' = "idle"
             /\ IsOutOfBounds(result')
             /\ ram' = ram ]_vars

\* an add or multiply whose sources were read has faulted on its destination
C8_Witness ==
    /\ pc = "idle"
    /\ ~last.ok
    /\ last.tag \in {"Add", "Multiply"}
    /\ last.at = ip
    /\ InMemory(ip + 3)
    /\ Param(3) >= Len(ram)
    /\ result.kind = "WriteOutOfBounds"

-----------------------------------------------------------------------------
\* C9: memory always has the length of the parsed program, and every cell
\* read or written is at an index from 0 up to, not including, that length.
C9_MemoryLengthFixed ==
    /\ Len(ram) = Len(parsed)
    /\ Len(program) = Len(parsed)
    /\ \A a \in touched : a.off = 0 /\ a.val >= 0 /\ a.val < Len(parsed)

\* a step has faulted on an address past the end after accessing cells
C9_Witness ==
    /\ pc = "idle"
    /\ IsOutOfBounds(result)
    /\ result.at.off = 0
    /\ result.at.val >= Len(ram)
    /\ touched # {}
    /\ ram # parsed

-----------------------------------------------------------------------------
\* C10: halted is false at construction and after reset(); once true it stays
\* true under every operation but reset(); and a run entered while halted is
\* true processes no instruction: the pointer and the output stay, no
\* instruction is counted, and run() leaves memory as it is (run_nv still
\* writes its two seed cells before the loop).
C10_HaltedSticks ==
    [][ /\ (call = "new" => ~halted)
        /\ (call' = "reset" => ~halted')
        /\ (halted /\ call' # "reset")
             => /\ halted'
                /\ ip' = ip
                /\ output' = output
                /\ \/ steps' = steps /\ last' = last
                   \/ steps' = 0 /\ last' = NoStep
                /\ (call' = "run" => ram' = ram)
                /\ (pc = "execute" => pc' = "idle" /\ result'.kind = "Ok" /\ ram' = ram)
      ]_vars

\* a run entered while halted was true has returned
C10_Witness ==
    /\ pc = "idle"
    /\ call = "run"
    /\ halted
    /\ steps = 0
    /\ result.kind = "Ok"
    /\ ip > 0

-----------------------------------------------------------------------------
\* C11: a fault is terminal until reset(): once a run has returned a fault,
\* no instruction of a later run() completes before reset() is called, not
\* even when that run() brings fresh input after an input-exhausted fault.
C11_FaultIsTerminal ==
    [][ (Processing /\ call = "run" /\ faulted) => ~last'.ok ]_vars

-----------------------------------------------------------------------------
\* C12: a reset() + run_nv(noun, verb) cycle does not depend on history: for
\* a program, whether the cycle halts or faults (and with which fault), and
\* the memory and the rest of the machine it leaves, are those of the same
\* cycle on a machine fresh from the parsed program, whatever cycles were run
\* before, with whatever seeds, and however they ended.
C12_CycleHistoryIndependent ==
    (pc = "idle" /\ call = "run_nv" /\ ~rerun)
      => LET c == RunNvOn(ResetOn(parsed), seed[1], seed[2])
         IN  /\ result = Outcome(c.res)
             /\ ram = c.m.ram
             /\ Machine(ram, ip, halted, input, output) = c.m

\* a cycle that wrote memory and halted, after a reset() that followed a run
\* that had faulted
C12_Witness ==
    /\ pc = "idle"
    /\ call = "run_nv"
    /\ ~rerun
    /\ earlier = "fault"
    /\ result.kind = "Ok"
    /\ halted
    /\ steps >= 2
    /\ ram[1] # parsed[1]

-----------------------------------------------------------------------------
\* C13: an input instruction processed while no input value is pending ends
\* the run with an input-exhausted fault, and memory, the instruction
\* pointer, halted and output (and the empty input) are as before the step.
C13_InputExhausted ==
    [][ ( /\ Processing /\ InMemory(ip) /\ WellFormed(Word)
          /\ BaseCode(Word) = 3
          /\ InMemory(ip + 1)
          /\ input = <<>> )
          => /\ pc' = "idle"
             /\ IsInputExhausted(result')
             /\ UNCHANGED machine ]_vars

\* a run has faulted on its second input instruction, the first having
\* consumed the only value supplied
C13_Witness ==
    /\ pc = "idle"
    /\ call = "run"
    /\ IsInputExhausted(result)
    /\ inputsDone = 1
    /\ Len(supplied) = 1
    /\ ~last.ok
    /\ last.tag = "Input"
    /\ last.at = ip
    /\ ip > 0
    /\ input = <<>>

-----------------------------------------------------------------------------
\* the echo program of the documentation
EchoProgram == <<3, 0, 4, 0, 99>>

\* C14: the program 3,0,4,0,99 run on a fresh machine with input [x] halts
\* with output exactly [x] and memory[0] = x, for every x; and in general an
\* output instruction that addresses the cell the input instruction just
\* before it stored into appends the value that instruction consumed to the
\* end of the output.
C14_InputEchoed ==
    [][ /\ ( /\ pc' = "idle" /\ call' = "run" /\ ~rerun'
             /\ parsed = EchoProgram
             /\ Len(supplied') = 1 )
          => /\ result'.kind = "Ok"
             /\ halted'
             /\ output' = supplied'
             /\ ram'[1] = supplied'[1]
        /\ ( /\ Processing /\ ~consumed.none
             /\ InMemory(ip) /\ WellFormed(Word)
             /\ BaseCode(Word) = 4 /\ ModeDigit(Word, 1) = 0
             /\ InMemory(ip + 1)
             /\ AsUsize(Param(1)) = consumed.adr )
          => /\ last'.ok
             /\ output' = Append(output, consumed.val)
      ]_vars

\* the echo program has halted on input [123] with output [123]
C14_Witness ==
    /\ pc = "idle"
    /\ call = "run"
    /\ ~rerun
    /\ parsed = EchoProgram
    /\ supplied = <<123>>
    /\ result.kind = "Ok"
    /\ halted
    /\ output = <<123>>
    /\ ram[1] = 123
    /\ steps = 3

-----------------------------------------------------------------------------
\* the cell holds the unsigned 32-bit value n
HoldsU32(cell, n) == cell >= 0 /\ cell \div 65536 = n.hi /\ cell % 65536 = n.lo

\* C15: run_nv(noun, verb) on a memory of three cells or more sets
\* memory[1] = noun and memory[2] = verb and changes no other cell, before any
\* instruction is decoded; on a memory of two cells or fewer it returns an
\* out-of-bounds fault and no instruction is executed.
C15_SeedWritten ==
    [][ (pc = "idle" /\ call' = "run_nv")
          => /\ Len(ram) >= 3
                  => /\ HoldsU32(ram'[2], seed'[1])
                     /\ HoldsU32(ram'[3], seed'[2])
                     /\ \A i \in 1 .. Len(ram) : i \notin {2, 3} => ram'[i] = ram[i]
                     /\ Len(ram') = Len(ram)
                     /\ pc' = "execute"
                     /\ steps' = 0
                     /\ ip' = ip
             /\ Len(ram) <= 2
                  => /\ pc' = "idle"
                     /\ IsOutOfBounds(result')
                     /\ steps' = 0
                     /\ last' = NoStep
                     /\ UNCHANGED <<ip, halted, input, output>>
      ]_vars

-----------------------------------------------------------------------------
\* c is the sum of a and b as integers (no intermediate value leaves i32)
IsSum(c, a, b) ==
    IF a >= 0 /\ b >= 0 THEN c >= a /\ c - a = b
    ELSE IF a < 0 /\ b < 0 THEN c <= a /\ c - a = b
    ELSE c = a + b

\* a positive number's negative; a negative number itself
Negative(a) == IF a > 0 THEN 0 - a ELSE a

\* c is the product of a and b as integers (no intermediate value leaves i32)
IsProduct(c, a, b) ==
    IF a = 0 \/ b = 0 THEN c = 0
    ELSE IF a = I32Min THEN b = 1 /\ c = I32Min
    ELSE IF b = I32Min THEN a = 1 /\ c = I32Min
    ELSE /\ c # 0
         /\ (c > 0) = ((a > 0) = (b > 0))
         /\ Negative(c) % (0 - Negative(a)) = 0
         /\ Negative(c) \div (0 - Negative(a)) = Negative(b)

\* C16: a completed add (multiply) step with all mode digits 0 stores the sum
\* (the product) of the two addressed cells, as they were before the step, at
\* the address given by the third parameter word, and changes no other cell,
\* nor input, output or halted.
C16_ArithmeticEffect ==
    [][ (Processing /\ last'.ok /\ last'.tag \in {"Add", "Multiply"} /\ Word \in {1, 2})
          => /\ IF Word = 1
                THEN IsSum(ram'[Param(3) + 1], Cell(Param(1)), Cell(Param(2)))
                ELSE IsProduct(ram'[Param(3) + 1], Cell(Param(1)), Cell(Param(2)))
             /\ \A i \in 1 .. Len(ram) : i # Param(3) + 1 => ram'[i] = ram[i]
             /\ Len(ram') = Len(ram)
             /\ UNCHANGED <<input, output, halted>>
      ]_vars

-----------------------------------------------------------------------------
\* the documented width of an instruction, by its base code
Width(code) == IF code \in {1, 2} THEN 4 ELSE IF code \in {3, 4} THEN 2 ELSE 0

\* C17: a completed step moves the instruction pointer forward by the width
\* of the instruction it decoded: 4 for add and multiply, 2 for input and
\* output, 0 for halt; a step that faults, run(), run_nv() and the return of
\* the loop leave the pointer where it is; only reset() sets it otherwise
\* (to 0).
C17_PointerAdvance ==
    [][ /\ (Processing /\ last'.ok)
             => /\ WellFormed(Word)
                /\ BaseCode(Word) \in {1, 2, 3, 4, 99}
                /\ last'.tag = CASE BaseCode(Word) = 1 -> "Add"
                                 [] BaseCode(Word) = 2 -> "Multiply"
                                 [] BaseCode(Word) = 3 -> "Input"
                                 [] BaseCode(Word) = 4 -> "Output"
                                 [] OTHER -> "Halt"
                /\ ip' = ip + Width(BaseCode(Word))
        /\ (~(Processing /\ last'.ok) /\ call' # "reset") => ip' = ip
        /\ (call' = "reset") => ip' = 0
      ]_vars

\* an input or output instruction has completed after an add or multiply
C17_Witness ==
    /\ pc = "execute"
    /\ last.ok
    /\ last.tag \in {"Input", "Output"}
    /\ last.at = 4
    /\ ip = 6
    /\ steps = 2

-----------------------------------------------------------------------------
\* the destination parameter word of the instruction at the instruction pointer
Destination == IF BaseCode(Word) = 3 THEN Param(1) ELSE Param(3)

\* C18: a completed add, multiply or input step writes the cell whose address
\* is the destination parameter word itself, whatever the mode digit of that
\* parameter: the word is in memory's range, the cell at that address is the
\* one the write lands on (for input it then holds the consumed value),
\* and every other cell is as before.
C18_DestinationIsRaw ==
    [][ (Processing /\ last'.ok /\ last'.tag \in {"Add", "Multiply", "Input"})
          => /\ InMemory(Destination)
             /\ AsUsize(Destination) \in touched'
             /\ last'.tag = "Input" => ram'[Destination + 1] = consumed'.val
             /\ \A i \in 1 .. Len(ram) : i # Destination + 1 => ram'[i] = ram[i]
      ]_vars

\* an add whose destination carries mode digit 1 has written the cell at the
\* address given by the parameter word (4), not a cell named by that cell (99)
C18_Witness ==
    /\ pc = "execute"
    /\ last.ok
    /\ last.tag = "Add"
    /\ last.at = 0
    /\ ram[1] = 10001
    /\ ram[4] = 4
    /\ parsed[5] = 99
    /\ ram[5] # 99

-----------------------------------------------------------------------------
\* the machine on which the loop of the first run since new() / reset()
\* started: the parsed program with the seeds or the input of the call
RunStart ==
    IF call = "run_nv"
    THEN [ResetOn(parsed) EXCEPT
            !.ram = RamWrite(RamWrite(parsed, Usize(1), U32AsI32(seed[1])).val,
                             Usize(2), U32AsI32(seed[2])).val]
    ELSE [ResetOn(parsed) EXCEPT !.input = supplied]

\* C19: when a run faults on its k-th instruction, memory and output are
\* those the k-1 completed instructions produced (the faulting step changes
\* neither, and nothing is rolled back), the instruction pointer is the
\* address of the faulting instruction, and halted is false.
C19_FaultKeepsState ==
    [][ /\ (Processing /\ ~last'.ok)
             => /\ pc' = "idle"
                /\ IsFault(result')
                /\ steps' = steps
                /\ ram' = ram
                /\ output' = output
                /\ ip' = ip
                /\ last'.at = ip
                /\ ~halted'
        /\ (Processing /\ ~last'.ok /\ ~rerun)
             => LET done == StepsOn(RunStart, steps)
                IN  /\ ram' = done.ram
                    /\ output' = done.output
                    /\ ip' = done.ip
      ]_vars

\* a run has faulted on its third instruction, the first two having written
\* memory and produced output
C19_Witness ==
    /\ pc = "idle"
    /\ IsFault(result)
    /\ ~last.ok
    /\ ~rerun
    /\ steps = 2
    /\ ram # parsed
    /\ output # <<>>
    /\ ip = last.at
    /\ ip > 0
    /\ ~halted

-----------------------------------------------------------------------------
\* C20: an instruction that faults commits no partial effect: memory, the
\* instruction pointer, halted, the pending input and the output are all as
\* before the step; in particular an input instruction whose destination is
\* out of bounds fails with an out-of-bounds fault and consumes no value.
C20_FaultCommitsNothing ==
    [][ /\ (Processing /\ ~last'.ok) => UNCHANGED machine
        /\ ( /\ Processing /\ InMemory(ip) /\ WellFormed(Word)
             /\ BaseCode(Word) = 3
             /\ InMemory(ip + 1)
             /\ ~InMemory(Param(1))
             /\ input # <<>> )
          => /\ IsOutOfBounds(result')
             /\ input' = input
      ]_vars

-----------------------------------------------------------------------------
\* C21: when the instruction pointer is at or past the length of memory and
\* no halt was decoded, fetching the instruction word fails with an
\* out-of-bounds fault that reports that address; nothing is read, memory,
\* pointer, halted, input and output stay as they are (no wrap-around, no
\* silent halt); and the pointer never lies beyond the length of memory.
C21_RunsOffTheEnd ==
    [][ /\ (Processing /\ ~InMemory(ip))
             => /\ pc' = "idle"
                /\ result'.kind = "ReadOutOfBounds"
                /\ result'.at = Usize(ip)
                /\ last' = [at |-> ip, tag |-> "none", ok |-> FALSE]
                /\ touched' = {}
                /\ UNCHANGED machine
        /\ ip' <= Len(ram')
      ]_vars

\* the program 1,0,0,0 has completed its add and faulted fetching address 4
C21_Witness ==
    /\ pc = "idle"
    /\ parsed = <<1, 0, 0, 0>>
    /\ steps = 1
    /\ ip = 4
    /\ result.kind = "ReadOutOfBounds"
    /\ result.at = Usize(4)
    /\ ram = <<2, 0, 0, 0>>
    /\ ~halted

-----------------------------------------------------------------------------
\* C22: a run terminates, with a halt or a fault.  Every step of the loop
\* either ends the run with a fault, or decodes a halt (after which the loop
\* condition ends the run), or completes an instruction and moves the
\* pointer forward by at least 2; the length of memory is fixed and the
\* pointer never passes it; so a run on a memory of n words completes at
\* most ceil(n / 2) instructions (2 * steps <= n + 1) and no run loops.
C22_RunTerminates ==
    [][ /\ Processing
             => \/ pc' = "idle" /\ IsFault(result') /\ steps' = steps
                \/ /\ pc' = "execute"
                   /\ steps' = steps + 1
                   /\ \/ halted' /\ ip' = ip
                      \/ ~halted' /\ ip' >= ip + 2
        /\ (pc = "execute" /\ halted)
             => pc' = "idle" /\ result'.kind = "Ok" /\ steps' = steps
        /\ Len(ram') = Len(ram)
        /\ ip' <= Len(ram')
        /\ 2 * steps' <= Len(ram') + 1
      ]_vars

\* 3,0,4,0,99 has halted after ceil(5 / 2) = 3 instructions
C22_Witness ==
    /\ pc = "idle"
    /\ halted
    /\ result.kind = "Ok"
    /\ Len(ram) = 5
    /\ steps = 3
    /\ ip = 4

-----------------------------------------------------------------------------
\* C23: every negative instruction word faults at decode.  For w < 0 the
\* conversion either fails with an invalid parameter mode or yields a base
\* code that is none of 1, 2, 3, 4, 99, so that decode fails with an invalid
\* opcode; the word is never decoded as add, multiply, input, output or halt.
C23_NegativeWordFaults ==
    arg < 0 =>
        /\ ret.kind # "NotYet"
             => \/ ~ret.ok /\ ret.kind = "InvalidParameterMode"
                \/ ret.ok /\ ret.val.op \notin {1, 2, 3, 4, 99}
        /\ last # NoStep
             => /\ ~last.ok
                /\ last.tag = "none"
                /\ result.kind \in {"InvalidParameterMode", "InvalidOpcode"}
                /\ (result.kind = "InvalidOpcode") = ret.ok

\* -100001 has passed the mode digits and failed in decode with code 255
C23_Witness ==
    /\ arg = 0 - 100001
    /\ ret.ok
    /\ ret.val.op = 255
    /\ last = [at |-> 0, tag |-> "none", ok |-> FALSE]
    /\ result.kind = "InvalidOpcode"

-----------------------------------------------------------------------------
\* the instruction at the instruction pointer has a negative parameter word
\* in the place of an address: a source of add / multiply / output in
\* address mode, or the destination of add / multiply / input
NegativeAddress ==
    /\ InMemory(ip)
    /\ WellFormed(Word)
    /\ \/ /\ BaseCode(Word) \in {1, 2}
          /\ InMemory(ip + 3)
          /\ \/ \E i \in 1 .. 2 : ModeDigit(Word, i) = 0 /\ Param(i) < 0
             \/ Param(3) < 0
       \/ /\ BaseCode(Word) = 3
          /\ InMemory(ip + 1)
          /\ Param(1) < 0
       \/ /\ BaseCode(Word) = 4
          /\ InMemory(ip + 1)
          /\ ModeDigit(Word, 1) = 0
          /\ Param(1) < 0

\* C24: an instruction with a negative parameter word in the place of an
\* address always ends the run with an out-of-bounds fault, and no cell is
\* read or written through a negative address.
C24_NegativeAddressFaults ==
    [][ /\ (Processing /\ NegativeAddress)
             => /\ pc' = "idle"
                /\ IsOutOfBounds(result')
                /\ UNCHANGED <<ram, ip, halted, output>>
        /\ \A a \in touched' : a.off = 0
      ]_vars

\* C24, amended: the same, except that an input instruction with no input
\* value pending ends the run with an input-exhausted fault before its
\* destination is used; in every case the run ends with a fault, memory is
\* untouched and no cell is read or written through a negative address.
C24_NegativeAddressNeverInBounds ==
    [][ /\ (Processing /\ NegativeAddress)
             => /\ pc' = "idle"
                /\ IF BaseCode(Word) = 3 /\ input = <<>>
                   THEN IsInputExhausted(result')
                   ELSE IsOutOfBounds(result')
                /\ UNCHANGED <<ram, ip, halted, output>>
        /\ \A a \in touched' : a.off = 0
      ]_vars

\* an input instruction with destination -1 and a value pending has faulted
\* on the write, at the address 2^64 - 1
C24_Witness ==
    /\ pc = "idle"
    /\ ~last.ok
    /\ last.tag = "Input"
    /\ last.at = ip
    /\ InMemory(ip + 1)
    /\ Param(1) = 0 - 1
    /\ supplied # <<>>
    /\ result.kind = "WriteOutOfBounds"
    /\ result.at = [off |-> 1, val |-> 0 - 1]
    /\ ram = parsed

-----------------------------------------------------------------------------
\* the program is in the class of the comparison: its cells are not negative,
\* every instruction word fetched during the run (as the program left it) is
\* below 100 and is neither 3 nor 4, and no result exceeds I32Max
EarlierRevisionProgram ==
    /\ \A i \in 1 .. Len(program) : program[i] >= 0
    /\ \A w \in fetched : w < 100 /\ w \notin {3, 4}
    /\ d2res.kind # "Beyond"

\* C25: on a program of that class, day02's execute_program and
\* IntcodeComputer's execute end the same way (both halt, or both fail) and,
\* when they halt, leave the same memory cell for cell; day02's pointer is
\* then one past the halt instruction, the interpreter's is on it.
C25_AgreesWithDay02 ==
    (call = "execute" /\ EarlierRevisionProgram)
        => /\ (d2res.kind = "Ok") = (result.kind = "Ok")
           /\ result.kind = "Ok"
                => /\ halted
                   /\ ram = d2ram
                   /\ d2ip = ip + 1

\* both revisions have halted on 1,1,1,4,99,5,6,0,99 with the memory of the tests
C25_Witness ==
    /\ call = "execute"
    /\ EarlierRevisionProgram
    /\ program = <<1, 1, 1, 4, 99, 5, 6, 0, 99>>
    /\ d2res.kind = "Ok"
    /\ result.kind = "Ok"
    /\ ram = <<30, 1, 1, 4, 2, 5, 6, 0, 99>>
    /\ d2ram = ram
    /\ ip = 8
    /\ d2ip = 9

-----------------------------------------------------------------------------
\* the i-th decimal digit, from the left, of a 6-digit number
DigitOf(n, i) == (n \div (10 ^ (6 - i))) % 10

NonDecreasing(n) == \A i \in 1 .. 5 : DigitOf(n, i) <= DigitOf(n, i + 1)

SomeAdjacentEqual(n) == \E i \in 1 .. 5 : DigitOf(n, i) = DigitOf(n, i + 1)

\* the digits i and i + 1 are a maximal run of equal digits
SomeRunOfTwo(n) ==
    \E i \in 1 .. 5 :
        /\ DigitOf(n, i) = DigitOf(n, i + 1)
        /\ (i > 1 => DigitOf(n, i - 1) # DigitOf(n, i))
        /\ (i < 5 => DigitOf(n, i + 2) # DigitOf(n, i))

\* C26: for a 6-digit number is_password_good returns (p1, p2) with p1 true
\* exactly when the digits never decrease from left to right and two
\* adjacent digits are equal, and p2 true exactly when the digits never
\* decrease and some maximal run of equal digits has length 2 (a run at the
\* end of the number included); so p2 implies p1.
C26_PasswordRules ==
    ret.kind # "NotYet"
        => /\ ret.val[1] = (NonDecreasing(arg) /\ SomeAdjacentEqual(arg))
           /\ ret.val[2] = (NonDecreasing(arg) /\ SomeRunOfTwo(arg))
           /\ ret.val[2] => ret.val[1]

\* 111122: the run of two ends at the last digit
C26_Witness ==
    /\ arg = 111122
    /\ ret.kind = "Ok"
    /\ ret.val = <<TRUE, TRUE>>

====
